---- MODULE Spec2Model ----
(***************************************************************************)
(* Obsidian OS kernel core: heap allocator (kernel/memory.c), process      *)
(* table (process management, unnamed/part_003) and priority scheduler     *)
(* (unnamed/part_004), modelled as one state machine.  Every C function    *)
(* is an operator from a kernel state record to the kernel state(s) it     *)
(* leaves; an action of the state machine is one call of a public          *)
(* function with its arguments drawn from small sets.                      *)
(***************************************************************************)
EXTENDS Integers, Sequences, FiniteSets, TLC

(* ------------------------------------------------------------------ *)
(* Sizes.  The table, the heap and the inputs are scaled down; the     *)
(* relations between them are the source's: the heap holds fewer       *)
(* kernel stacks than the process table has slots.                     *)
(* ------------------------------------------------------------------ *)
MAX_PROCESSES == 3
KERNEL_STACK_SIZE == 64
KERNEL_HEAP_SIZE == 240
MaxSteps == 3
MaxUptime == 1
MaxTableSteps == 7
PAGE_SIZE == 16
USER_PAGES == 2
MaxHeapSteps == 8
MaxPageSteps == 4
MaxSleepSteps == 4

MAX_PRIORITY == 10
MIN_PRIORITY == 1
AI_PRIORITY_BOOST == 2
DEFAULT_PRIORITY == 5
DEFAULT_QUANTUM == 10
IDLE_PID == 1
BLOCK_HEADER == 32
KERNEL_HEAP_START == 1048576
TOTAL_MEMORY == 2097152
FIRST_USER_PAGE == 256
PAGE_FRAME == 4096
PAGE_FLAGS == 7

PROCESS_NEW == 0
PROCESS_READY == 1
PROCESS_RUNNING == 2
PROCESS_WAITING == 3
PROCESS_TERMINATED == 4

(* Unsigned counters are kept as the signed integer with the same bits     *)
(* (two's complement): a uint32_t 0 decremented is -1, which reads as      *)
(* 2^32 - 1.  SIZE_MAX is -1 in the same reading.                          *)
SIZE_MAX == 0 - 1
ULt(a, b) == IF (a < 0) = (b < 0) THEN a < b ELSE b < 0
UGe(a, b) == ~ULt(a, b)
UGt(a, b) == ULt(b, a)
ULe(a, b) == ~ULt(b, a)

(* Pointers to PCBs.  NULL is 0, &processes[i] is i + 1, and the value     *)
(* (process_t* )h that select_next_process makes of a head index h >= 1 is  *)
(* -h: an address below MAX_PROCESSES, inside no kernel object.            *)
NULL == 0
Slots == 1..MAX_PROCESSES
WildPtr(h) == IF h = 0 THEN NULL ELSE 0 - h
IsWild(p) == p < 0
Ptrs == {WildPtr(h) : h \in 0..(MAX_PROCESSES - 1)} \cup Slots

(* What a read through a wild pointer can yield. *)
WildStates == {PROCESS_NEW, PROCESS_RUNNING}
WildPriorities == {0, DEFAULT_PRIORITY, MAX_PRIORITY + 1}
WildQuanta == {0, DEFAULT_QUANTUM}

(* Inputs of the calls. *)
PidInputs == 0..MAX_PROCESSES
PriorityInputs == {0, 3, 12}
SleepInputs == {0, 1}
TablePidInputs == 0..(MAX_PROCESSES + 2)

Min(S) == CHOOSE x \in S : \A y \in S : x <= y

(* The page directory entries page_alloc hands out. *)
UserPages == FIRST_USER_PAGE..(FIRST_USER_PAGE + USER_PAGES - 1)

VARIABLES
    processes, next_pid, proc_current_process, total_processes, active_processes,
    ready_queue, ready_queue_head, ready_queue_tail,
    waiting_queue, waiting_queue_head, waiting_queue_tail,
    scheduler_stats, scheduler_tick_count, current_process,
    priority_queues, priority_queue_heads, priority_queue_tails,
    heap, used_memory, page_directory, uptime, registers, fault, last, issued,
    pointers, steps, engine

vars == <<processes, next_pid, proc_current_process, total_processes, active_processes,
          ready_queue, ready_queue_head, ready_queue_tail,
          waiting_queue, waiting_queue_head, waiting_queue_tail,
          scheduler_stats, scheduler_tick_count, current_process,
          priority_queues, priority_queue_heads, priority_queue_tails,
          heap, used_memory, page_directory, uptime, registers, fault, last, issued,
          pointers, steps, engine>>

(* The kernel's globals as one record; ret is the value the last function  *)
(* returned.                                                               *)
Kernel ==
    [processes |-> processes, next_pid |-> next_pid,
     proc_current_process |-> proc_current_process,
     total_processes |-> total_processes, active_processes |-> active_processes,
     ready_queue |-> ready_queue, ready_queue_head |-> ready_queue_head,
     ready_queue_tail |-> ready_queue_tail,
     waiting_queue |-> waiting_queue, waiting_queue_head |-> waiting_queue_head,
     waiting_queue_tail |-> waiting_queue_tail,
     scheduler_stats |-> scheduler_stats, scheduler_tick_count |-> scheduler_tick_count,
     current_process |-> current_process,
     priority_queues |-> priority_queues, priority_queue_heads |-> priority_queue_heads,
     priority_queue_tails |-> priority_queue_tails,
     heap |-> heap, used_memory |-> used_memory, page_directory |-> page_directory,
     uptime |-> uptime, registers |-> registers, fault |-> fault, ret |-> 0]

Is(k) ==
    /\ processes = k.processes
    /\ next_pid = k.next_pid
    /\ proc_current_process = k.proc_current_process
    /\ total_processes = k.total_processes
    /\ active_processes = k.active_processes
    /\ ready_queue = k.ready_queue
    /\ ready_queue_head = k.ready_queue_head
    /\ ready_queue_tail = k.ready_queue_tail
    /\ waiting_queue = k.waiting_queue
    /\ waiting_queue_head = k.waiting_queue_head
    /\ waiting_queue_tail = k.waiting_queue_tail
    /\ scheduler_stats = k.scheduler_stats
    /\ scheduler_tick_count = k.scheduler_tick_count
    /\ current_process = k.current_process
    /\ priority_queues = k.priority_queues
    /\ priority_queue_heads = k.priority_queue_heads
    /\ priority_queue_tails = k.priority_queue_tails
    /\ heap = k.heap
    /\ used_memory = k.used_memory
    /\ page_directory = k.page_directory
    /\ uptime = k.uptime
    /\ registers = k.registers
    /\ fault = k.fault

Becomes(k) ==
    /\ processes' = k.processes
    /\ next_pid' = k.next_pid
    /\ proc_current_process' = k.proc_current_process
    /\ total_processes' = k.total_processes
    /\ active_processes' = k.active_processes
    /\ ready_queue' = k.ready_queue
    /\ ready_queue_head' = k.ready_queue_head
    /\ ready_queue_tail' = k.ready_queue_tail
    /\ waiting_queue' = k.waiting_queue
    /\ waiting_queue_head' = k.waiting_queue_head
    /\ waiting_queue_tail' = k.waiting_queue_tail
    /\ scheduler_stats' = k.scheduler_stats
    /\ scheduler_tick_count' = k.scheduler_tick_count
    /\ current_process' = k.current_process
    /\ priority_queues' = k.priority_queues
    /\ priority_queue_heads' = k.priority_queue_heads
    /\ priority_queue_tails' = k.priority_queue_tails
    /\ heap' = k.heap
    /\ used_memory' = k.used_memory
    /\ page_directory' = k.page_directory
    /\ uptime' = k.uptime
    /\ registers' = k.registers
    /\ fault' = k.fault

(* ------------------------------------------------------------------ *)
(* kernel/memory.c: the heap                                           *)
(* ------------------------------------------------------------------ *)

(* memory_block_t written at address a. *)
Store(h, a, b) == [x \in (DOMAIN h) \cup {a} |-> IF x = a THEN b ELSE h[x]]

memory_init(k) ==
    [k EXCEPT !.heap = (KERNEL_HEAP_START :>
                          [size |-> KERNEL_HEAP_SIZE - BLOCK_HEADER, used |-> FALSE,
                           next |-> NULL, prev |-> NULL]),
              !.used_memory = 0,
              !.page_directory = [i \in UserPages |-> 0]]

AlignUp(size) == ((size + 7) \div 8) * 8

(* The best-fit search without its test of the used flag. *)
RECURSIVE BestFitAnyBlock(_, _, _, _, _)
BestFitAnyBlock(h, current, size, best_fit, best_size) ==
    IF current = NULL THEN best_fit
    ELSE IF UGe(h[current].size, size) /\ ULt(h[current].size, best_size)
         THEN BestFitAnyBlock(h, h[current].next, size, current, h[current].size)
         ELSE BestFitAnyBlock(h, h[current].next, size, best_fit, best_size)

RECURSIVE BestFit(_, _, _, _, _)
BestFit(h, current, size, best_fit, best_size) ==
    IF current = NULL THEN best_fit
    ELSE IF ~h[current].used /\ UGe(h[current].size, size) /\ ULt(h[current].size, best_size)
         THEN BestFit(h, h[current].next, size, current, h[current].size)
         ELSE BestFit(h, h[current].next, size, best_fit, best_size)

(* The headers a walk along next visits from current on, after those of    *)
(* seen; the walk stops at NULL or at a header it has visited before.       *)
RECURSIVE BlocksFrom(_, _, _)
BlocksFrom(h, current, seen) ==
    IF current = NULL \/ current \in seen THEN seen
    ELSE BlocksFrom(h, h[current].next, seen \cup {current})

(* The headers on the block list, from current on. *)
Blocks(h, current) == BlocksFrom(h, current, {})

(* The scan while (current != NULL) current = current->next reaches NULL.   *)
RECURSIVE ScanEnds(_, _, _)
ScanEnds(h, current, seen) ==
    IF current = NULL THEN TRUE
    ELSE IF current \in seen THEN FALSE
    ELSE ScanEnds(h, h[current].next, seen \cup {current})

(* The heap after the bytes lo..hi-1 have been handed out or overwritten:   *)
(* a header of an earlier block that is no longer on the list and lies in   *)
(* those bytes no longer holds what kfree left in it.                       *)
Overwrite(h, lo, hi) ==
    LET keep == {a \in DOMAIN h :
                    \/ a \in Blocks(h, KERNEL_HEAP_START)
                    \/ a + BLOCK_HEADER <= lo
                    \/ a >= hi}
    IN [a \in keep |-> h[a]]

(* kmalloc from the alignment on (memory.c:107-147).  On a block list that *)
(* leads back into itself the scan does not end and the call never returns, *)
(* which ends the run.                                                      *)
kmalloc_aligned(k, request) ==
    LET size == AlignUp(request)
        h == k.heap
        best_fit == BestFit(h, KERNEL_HEAP_START, size, NULL, SIZE_MAX)
    IN IF ~ScanEnds(h, KERNEL_HEAP_START, {}) THEN [k EXCEPT !.fault = TRUE]
       ELSE IF best_fit = NULL THEN [k EXCEPT !.ret = NULL]
       ELSE
         LET b == h[best_fit]
             split == UGt(b.size, size + BLOCK_HEADER + 8)
             new_block == best_fit + BLOCK_HEADER + size
             h1 == IF split
                   THEN Store(h, new_block,
                              [size |-> b.size - size - BLOCK_HEADER, used |-> FALSE,
                               next |-> b.next, prev |-> best_fit])
                   ELSE h
             h2 == IF split /\ b.next # NULL
                   THEN [h1 EXCEPT ![b.next].prev = new_block]
                   ELSE h1
             h3 == IF split
                   THEN [h2 EXCEPT ![best_fit].next = new_block, ![best_fit].size = size]
                   ELSE h2
             h4 == [h3 EXCEPT ![best_fit].used = TRUE]
             end == IF split THEN new_block + BLOCK_HEADER
                    ELSE best_fit + BLOCK_HEADER + b.size
         IN [k EXCEPT !.heap = Overwrite(h4, best_fit + BLOCK_HEADER, end),
                      !.used_memory = @ + size,
                      !.ret = best_fit + BLOCK_HEADER]

(* kmalloc without its size check. *)
kmalloc_any_size(k, request) == kmalloc_aligned(k, request)

kmalloc(k, request) ==
    IF request = 0 THEN [k EXCEPT !.ret = NULL]
    ELSE kmalloc_aligned(k, request)

kfree(k, ptr) ==
    IF ptr = NULL THEN k
    ELSE
      LET block == ptr - BLOCK_HEADER
          h == k.heap
      IN IF ~h[block].used THEN k
         ELSE
           LET b == h[block]
               h1 == [h EXCEPT ![block].used = FALSE]
               mergeNext == b.next # NULL /\ ~h1[b.next].used
               h2 == IF mergeNext
                     THEN [h1 EXCEPT ![block].size = @ + h1[b.next].size + BLOCK_HEADER,
                                     ![block].next = h1[b.next].next]
                     ELSE h1
               h3 == IF mergeNext /\ h2[block].next # NULL
                     THEN [h2 EXCEPT ![h2[block].next].prev = block]
                     ELSE h2
               prev == h3[block].prev
               mergePrev == prev # NULL /\ ~h3[prev].used
               h4 == IF mergePrev
                     THEN [h3 EXCEPT ![prev].size = @ + h3[block].size + BLOCK_HEADER,
                                     ![prev].next = h3[block].next]
                     ELSE h3
               h5 == IF mergePrev /\ h4[block].next # NULL
                     THEN [h4 EXCEPT ![h4[block].next].prev = prev]
                     ELSE h4
           IN [k EXCEPT !.heap = h5, !.used_memory = @ - b.size]

(* What kfree can read as block->size where no header was left. *)
WildSizes == {0, 8}

(* kfree of a pointer whose header bytes are not a header kfree or kmalloc  *)
(* left there: block->used, ->size, ->next and ->prev are whatever the      *)
(* bytes hold.  used zero returns at once; used non-zero with both links    *)
(* NULL subtracts the size read; any other links are followed and written   *)
(* through, which ends the run.                                             *)
kfree_wild(k) ==
    {k} \cup {[k EXCEPT !.used_memory = @ - size] : size \in WildSizes}
        \cup {[k EXCEPT !.fault = TRUE]}

(* kfree of a pointer whose overwritten header lies 8 bytes in front of the *)
(* header n of a block on the list, so that block->used is the low byte of  *)
(* n's size field, block->next the word holding n's used flag and           *)
(* block->prev n's next field; block->size is read from the payload in      *)
(* front of n.  A zero byte returns at once.  Otherwise block->used = false *)
(* clears the low byte of n's size and the size read is subtracted; the     *)
(* word read as block->next is NULL only if n is free and the bytes behind  *)
(* its flag are zero, and then the block n's next field points to is merged *)
(* into if it is free.  Any other link is followed, which ends the run.     *)
kfree_over_size(k, n) ==
    LET h == k.heap
        byte == h[n].size % 256
        prev == h[n].next
        h1 == [h EXCEPT ![n].size = @ - byte]
        merged(size) ==
            IF prev # NULL /\ ~h1[prev].used
            THEN [h1 EXCEPT ![prev].size = @ + size + BLOCK_HEADER,
                            ![prev].next = NULL]
            ELSE h1
    IN IF byte = 0 THEN {k}
       ELSE IF h[n].used THEN {[k EXCEPT !.fault = TRUE]}
       ELSE {[k EXCEPT !.heap = merged(size), !.used_memory = @ - size] :
                size \in WildSizes}
            \cup {[k EXCEPT !.fault = TRUE]}

(* kfree of a pointer whose overwritten header lies 8 bytes behind the      *)
(* header n of a block on the list, so that block->size is the word holding *)
(* n's used flag, block->used the low byte of n's next field, block->next   *)
(* n's prev field and block->prev the first word of n's payload.  A zero    *)
(* byte returns at once.  Otherwise block->used = false clears the low byte *)
(* of n's next pointer and the size read is subtracted; a free block read   *)
(* as block->next is merged with through the overlapping fields, and a      *)
(* payload word that is not NULL is followed, which both end the run, as    *)
(* does a next pointer that no longer points to a header.                   *)
kfree_over_next(k, n) ==
    LET h == k.heap
        byte == h[n].next % 256
        next == h[n].prev
        h1 == [h EXCEPT ![n].next = @ - byte]
        sizes == WildSizes \cup {IF h[n].used THEN 1 ELSE 0}
    IN IF byte = 0 THEN {k}
       ELSE IF (next # NULL /\ ~h1[next].used) \/ h1[n].next \notin DOMAIN h
       THEN {[k EXCEPT !.fault = TRUE]}
       ELSE {[k EXCEPT !.heap = h1, !.used_memory = @ - size] : size \in sizes}
            \cup {[k EXCEPT !.fault = TRUE]}

(* kfree, for any pointer. *)
kfree_outcomes(k, ptr) ==
    IF ptr # NULL /\ (ptr - BLOCK_HEADER) \notin DOMAIN k.heap
    THEN IF (ptr - BLOCK_HEADER + 8) \in Blocks(k.heap, KERNEL_HEAP_START)
         THEN kfree_over_size(k, ptr - BLOCK_HEADER + 8)
         ELSE IF (ptr - BLOCK_HEADER - 8) \in Blocks(k.heap, KERNEL_HEAP_START)
         THEN kfree_over_next(k, ptr - BLOCK_HEADER - 8)
         ELSE kfree_wild(k)
    ELSE {kfree(k, ptr)}

memory_get_stats_free_blocks(k) ==
    LET free == {a \in Blocks(k.heap, KERNEL_HEAP_START) : ~k.heap[a].used}
        RECURSIVE Sum(_)
        Sum(S) == IF S = {} THEN 0
                  ELSE LET a == CHOOSE x \in S : TRUE
                       IN k.heap[a].size + Sum(S \ {a})
    IN [total |-> TOTAL_MEMORY, used |-> k.used_memory, free |-> Sum(free)]

memory_get_stats(k) ==
    [total |-> TOTAL_MEMORY, used |-> k.used_memory,
     free |-> TOTAL_MEMORY - k.used_memory]

(* The first entry without PAGE_PRESENT (bit 0), or NULL. *)
FreePage(k) ==
    LET free == {i \in UserPages : k.page_directory[i] % 2 = 0}
    IN IF free = {} THEN NULL ELSE Min(free)

(* physical_addr | PAGE_PRESENT | PAGE_WRITE | PAGE_USER: kmalloc's pointers *)
(* are multiples of 8, so the three low bits are added.                      *)
PageEntry(physical_addr) == physical_addr + PAGE_FLAGS

(* *entry & ~0xFFF *)
PagePhysical(entry) == entry - (entry % PAGE_FRAME)

page_alloc(k) ==
    LET i == FreePage(k)
    IN IF i = NULL THEN [k EXCEPT !.ret = NULL]
       ELSE
         LET k1 == kmalloc(k, PAGE_SIZE)
         IN IF k1.ret = NULL THEN k1
            ELSE [k1 EXCEPT !.page_directory[i] = PageEntry(k1.ret),
                            !.ret = i * PAGE_FRAME]

(* page_free without the test of line 216: the entry of an index past the *)
(* table is whatever lies behind it.                                      *)
page_free_any_index(k, addr) ==
    LET page_index == addr \div PAGE_FRAME
    IN IF page_index >= FIRST_USER_PAGE + USER_PAGES THEN kfree_wild(k)
       ELSE IF k.page_directory[page_index] % 2 = 0 THEN {k}
       ELSE {IF k1.fault THEN k1 ELSE [k1 EXCEPT !.page_directory[page_index] = 0] :
                k1 \in kfree_outcomes(k, PagePhysical(k.page_directory[page_index]))}

page_free(k, addr) ==
    LET page_index == addr \div PAGE_FRAME
    IN IF page_index >= FIRST_USER_PAGE + USER_PAGES THEN {k}
       ELSE IF k.page_directory[page_index] % 2 = 0 THEN {k}
       ELSE {IF k1.fault THEN k1 ELSE [k1 EXCEPT !.page_directory[page_index] = 0] :
                k1 \in kfree_outcomes(k, PagePhysical(k.page_directory[page_index]))}

(* ------------------------------------------------------------------ *)
(* Process management (unnamed/part_003)                               *)
(* ------------------------------------------------------------------ *)

(* A process_t after memset(0): state 0 is PROCESS_NEW. *)
ZeroProcess ==
    [pid |-> 0, state |-> PROCESS_NEW, priority |-> 0, stack |-> NULL,
     wake_time |-> 0, quantum |-> 0, ai_priority |-> FALSE,
     context |-> [owner |-> NULL, version |-> 0]]

(* A register set (process_context_t) is told apart by the execution it    *)
(* belongs to, the slot of a PCB or NULL for the boot code, and by how     *)
(* often that execution has been resumed.  The frame process_create builds *)
(* is the PCB's own, never resumed.                                        *)
InitialContext(slot) == [owner |-> slot, version |-> 0]

(* The registers the kernel boots with. *)
BootRegisters == [owner |-> NULL, version |-> 0]

(* What lies at an address that holds no process_context_t. *)
WildRegisters == [owner |-> 0 - 1, version |-> 0]

(* process_save_context(&process->context): the live registers are copied  *)
(* into the PCB.                                                            *)
process_save_context(k, process) ==
    IF IsWild(process) THEN k
    ELSE [k EXCEPT !.processes[process].context = k.registers]

(* process_restore_context(&process->context): the registers are loaded    *)
(* from the PCB and the execution they belong to goes on from there.       *)
process_restore_context(k, process) ==
    IF IsWild(process) THEN [k EXCEPT !.registers = WildRegisters]
    ELSE [k EXCEPT !.registers =
                       [owner |-> k.processes[process].context.owner,
                        version |-> k.processes[process].context.version + 1]]

Wrap(i) == i % MAX_PROCESSES

process_get_by_pid(k, pid) ==
    LET found == {i \in Slots : k.processes[i].pid = pid
                                /\ k.processes[i].state # PROCESS_TERMINATED}
    IN IF found = {} THEN NULL ELSE Min(found)

(* process->pid = next_pid++, with the counter left where it was. *)
AssignPidNoIncrement(k, slot) ==
    [k EXCEPT !.processes[slot].pid = k.next_pid]

(* process->pid = next_pid++ *)
AssignPid(k, slot) ==
    [k EXCEPT !.processes[slot].pid = k.next_pid, !.next_pid = @ + 1]

(* The stack allocation failed, and the slot keeps the state it was       *)
(* given when it was claimed.                                             *)
StackAllocationFailedSlotKept(k, slot) ==
    [k EXCEPT !.processes[slot].stack = NULL, !.ret = 0 - 1]

(* if (!process->stack) { process->state = PROCESS_TERMINATED; return -1; } *)
StackAllocationFailed(k, slot) ==
    [k EXCEPT !.processes[slot].stack = NULL,
              !.processes[slot].state = PROCESS_TERMINATED,
              !.ret = 0 - 1]

process_create(k) ==
    IF UGe(k.total_processes, MAX_PROCESSES) THEN [k EXCEPT !.ret = 0 - 1]
    ELSE
      LET free == {i \in Slots : k.processes[i].state = PROCESS_TERMINATED
                                 \/ k.processes[i].state = 0}
      IN IF free = {} THEN [k EXCEPT !.ret = 0 - 1]
         ELSE
           LET slot == Min(free)
               k1 == [AssignPid(k, slot) EXCEPT
                               !.processes[slot] =
                                   [@ EXCEPT !.state = PROCESS_NEW,
                                             !.priority = DEFAULT_PRIORITY,
                                             !.wake_time = 0,
                                             !.quantum = DEFAULT_QUANTUM,
                                             !.ai_priority = FALSE]]
               k2 == kmalloc(k1, KERNEL_STACK_SIZE)
               stack == k2.ret
           IN IF stack = NULL
              THEN StackAllocationFailed(k2, slot)
              ELSE [k2 EXCEPT !.processes[slot].stack = stack,
                              !.processes[slot].context = InitialContext(slot),
                              !.total_processes = @ + 1,
                              !.active_processes = @ + 1,
                              !.processes[slot].state = PROCESS_READY,
                              !.ready_queue[k2.ready_queue_tail] = slot,
                              !.ready_queue_tail = Wrap(@ + 1),
                              !.ret = k2.processes[slot].pid]

(* The two shift-and-shrink removals of the circular queues. *)
RECURSIVE FindCircular(_, _, _, _)
FindCircular(q, i, tail, process) ==
    IF i = tail THEN 0 - 1
    ELSE IF q[i] = process THEN i
    ELSE FindCircular(q, Wrap(i + 1), tail, process)

RECURSIVE ShiftCircular(_, _, _)
ShiftCircular(q, j, tail) ==
    IF j = tail THEN q
    ELSE ShiftCircular([q EXCEPT ![j] = q[Wrap(j + 1)]], Wrap(j + 1), tail)

remove_from_ready_queue(k, process) ==
    LET i == FindCircular(k.ready_queue, k.ready_queue_head, k.ready_queue_tail, process)
    IN IF i = 0 - 1 THEN k
       ELSE [k EXCEPT !.ready_queue = ShiftCircular(@, i, k.ready_queue_tail),
                      !.ready_queue_tail = Wrap(@ - 1 + MAX_PROCESSES)]

remove_from_waiting_queue(k, process) ==
    LET i == FindCircular(k.waiting_queue, k.waiting_queue_head, k.waiting_queue_tail,
                          process)
    IN IF i = 0 - 1 THEN k
       ELSE [k EXCEPT !.waiting_queue = ShiftCircular(@, i, k.waiting_queue_tail),
                      !.waiting_queue_tail = Wrap(@ - 1 + MAX_PROCESSES)]

process_destroy(k, pid) ==
    LET process == process_get_by_pid(k, pid)
    IN IF process = NULL THEN k
       ELSE
         LET stack == k.processes[process].stack
             k1 == IF stack # NULL
                   THEN [kfree(k, stack) EXCEPT !.processes[process].stack = NULL]
                   ELSE k
             k2 == remove_from_ready_queue(k1, process)
             k3 == remove_from_waiting_queue(k2, process)
         IN [k3 EXCEPT !.processes[process].state = PROCESS_TERMINATED,
                       !.active_processes = @ - 1,
                       !.proc_current_process =
                           IF @ = process THEN NULL ELSE @]

process_set_priority(k, pid, priority) ==
    LET process == process_get_by_pid(k, pid)
    IN IF process = NULL THEN k
       ELSE [k EXCEPT !.processes[process].priority = priority]

process_set_ai_priority(k, pid, ai_priority) ==
    LET process == process_get_by_pid(k, pid)
    IN IF process = NULL THEN k
       ELSE [k EXCEPT !.processes[process].ai_priority = ai_priority]

process_sleep(k, pid, milliseconds) ==
    LET process == process_get_by_pid(k, pid)
    IN IF process = NULL THEN k
       ELSE
         LET k1 == remove_from_ready_queue(k, process)
         IN [k1 EXCEPT !.processes[process].state = PROCESS_WAITING,
                       !.processes[process].wake_time = k.uptime + milliseconds,
                       !.waiting_queue[k1.waiting_queue_tail] = process,
                       !.waiting_queue_tail = Wrap(@ + 1)]

(* process_wake without its test of the state. *)
process_wake_any_state(k, pid) ==
    LET process == process_get_by_pid(k, pid)
    IN IF process = NULL THEN k
       ELSE
         LET k1 == remove_from_waiting_queue(k, process)
         IN [k1 EXCEPT !.processes[process].state = PROCESS_READY,
                       !.ready_queue[k1.ready_queue_tail] = process,
                       !.ready_queue_tail = Wrap(@ + 1)]

process_wake(k, pid) ==
    LET process == process_get_by_pid(k, pid)
    IN IF process = NULL \/ k.processes[process].state # PROCESS_WAITING THEN k
       ELSE
         LET k1 == remove_from_waiting_queue(k, process)
         IN [k1 EXCEPT !.processes[process].state = PROCESS_READY,
                       !.ready_queue[k1.ready_queue_tail] = process,
                       !.ready_queue_tail = Wrap(@ + 1)]

process_get_next_ready(k) ==
    IF k.ready_queue_head = k.ready_queue_tail THEN [k EXCEPT !.ret = NULL]
    ELSE [k EXCEPT !.ret = k.ready_queue[k.ready_queue_head],
                   !.ready_queue_head = Wrap(@ + 1)]

process_add_to_ready(k, process) ==
    IF process = NULL THEN k
    ELSE [k EXCEPT !.processes[process].state = PROCESS_READY,
                   !.ready_queue[k.ready_queue_tail] = process,
                   !.ready_queue_tail = Wrap(@ + 1)]

(* The sweep re-reads waiting_queue_tail, which process_wake moves, on every *)
(* iteration.                                                                *)
RECURSIVE check_wakeups_from(_, _)
check_wakeups_from(k, i) ==
    IF i = k.waiting_queue_tail THEN k
    ELSE
      LET process == k.waiting_queue[i]
          k1 == IF process # NULL /\ ULe(k.processes[process].wake_time, k.uptime)
                THEN process_wake(k, k.processes[process].pid)
                ELSE k
      IN check_wakeups_from(k1, Wrap(i + 1))

process_check_wakeups(k) == check_wakeups_from(k, k.waiting_queue_head)

(* process_get_stats: total, active, ready, waiting. *)
process_get_stats(k) ==
    [total |-> k.total_processes, active |-> k.active_processes,
     ready |-> Wrap(k.ready_queue_tail - k.ready_queue_head + MAX_PROCESSES),
     waiting |-> Wrap(k.waiting_queue_tail - k.waiting_queue_head + MAX_PROCESSES)]

process_init(k) ==
    LET k0 == [k EXCEPT !.processes = [i \in Slots |-> ZeroProcess],
                        !.ready_queue_head = 0, !.ready_queue_tail = 0,
                        !.waiting_queue_head = 0, !.waiting_queue_tail = 0]
        k1 == process_create(k0)
    IN [k1 EXCEPT !.total_processes = 0, !.active_processes = 0,
                  !.proc_current_process = NULL]

(* ------------------------------------------------------------------ *)
(* Scheduler (unnamed/part_004)                                        *)
(* ------------------------------------------------------------------ *)

Max(S) == CHOOSE x \in S : \A y \in S : x >= y

(* F applied to every state of S that has not faulted. *)
Bind(S, F(_)) == UNION {IF t.fault THEN {t} ELSE F(t) : t \in S}

(* Field accesses through a process_t*: a slot of the table, or a wild     *)
(* address, where a read yields any value and a write lands outside the    *)
(* kernel's objects.                                                       *)
ReadState(k, p) == IF IsWild(p) THEN WildStates ELSE {k.processes[p].state}
ReadQuantum(k, p) == IF IsWild(p) THEN WildQuanta ELSE {k.processes[p].quantum}
ReadAiPriority(k, p) == IF IsWild(p) THEN BOOLEAN ELSE {k.processes[p].ai_priority}
ReadPid(k, p) == IF IsWild(p) THEN PidInputs ELSE {k.processes[p].pid}
WriteState(k, p, state) ==
    IF IsWild(p) THEN k ELSE [k EXCEPT !.processes[p].state = state]

scheduler_init(k) ==
    [k EXCEPT !.priority_queue_heads = [i \in 0..MAX_PRIORITY |-> 0],
              !.priority_queue_tails = [i \in 0..MAX_PRIORITY |-> 0],
              !.scheduler_stats = [total_switches |-> 0, ai_task_switches |-> 0,
                                   idle_time |-> 0, last_switch_time |-> 0,
                                   current_quantum |-> 0],
              !.current_process = NULL]

EffectivePriority(priority, ai_priority) ==
    IF ai_priority
    THEN IF UGt(priority + AI_PRIORITY_BOOST, MAX_PRIORITY)
         THEN MAX_PRIORITY
         ELSE priority + AI_PRIORITY_BOOST
    ELSE priority

(* The values get_effective_priority(process) can return. *)
get_effective_priority(k, process) ==
    IF process = NULL THEN {MIN_PRIORITY}
    ELSE IF IsWild(process) THEN WildPriorities
    ELSE {EffectivePriority(k.processes[process].priority,
                            k.processes[process].ai_priority)}

NonEmpty(k, priority) ==
    k.priority_queue_heads[priority] # k.priority_queue_tails[priority]

has_higher_priority_process(k) ==
    IF k.current_process = NULL THEN {FALSE}
    ELSE {\E priority \in MIN_PRIORITY..MAX_PRIORITY :
              UGt(priority, current_priority) /\ NonEmpty(k, priority)
          : current_priority \in get_effective_priority(k, k.current_process)}

(* should_switch_process with the quantum test of line 105 passed only     *)
(* once the budget is exceeded.                                            *)
should_switch_process_late_quantum(k) ==
    IF k.current_process = NULL THEN {TRUE}
    ELSE {state # PROCESS_RUNNING
          \/ UGt(k.scheduler_stats.current_quantum, quantum)
          \/ higher
          : state \in ReadState(k, k.current_process),
            quantum \in ReadQuantum(k, k.current_process),
            higher \in has_higher_priority_process(k)}

(* should_switch_process without the state test of line 100. *)
should_switch_process_ignoring_state(k) ==
    IF k.current_process = NULL THEN {TRUE}
    ELSE {UGe(k.scheduler_stats.current_quantum, quantum)
          \/ higher
          : quantum \in ReadQuantum(k, k.current_process),
            higher \in has_higher_priority_process(k)}

should_switch_process(k) ==
    IF k.current_process = NULL THEN {TRUE}
    ELSE {state # PROCESS_RUNNING
          \/ UGe(k.scheduler_stats.current_quantum, quantum)
          \/ higher
          : state \in ReadState(k, k.current_process),
            quantum \in ReadQuantum(k, k.current_process),
            higher \in has_higher_priority_process(k)}

(* select_next_process reading the queue entry at the head index. *)
select_next_process_entry(k) ==
    LET ready == {priority \in MIN_PRIORITY..MAX_PRIORITY : NonEmpty(k, priority)}
    IN IF ready # {}
       THEN LET priority == Max(ready)
            IN [k EXCEPT !.ret = k.priority_queues[priority]
                                     [k.priority_queue_heads[priority]],
                         !.priority_queue_heads[priority] = Wrap(@ + 1)]
       ELSE [k EXCEPT !.ret = process_get_by_pid(k, IDLE_PID)]

select_next_process(k) ==
    LET ready == {priority \in MIN_PRIORITY..MAX_PRIORITY : NonEmpty(k, priority)}
    IN IF ready # {}
       THEN LET priority == Max(ready)
            IN [k EXCEPT !.ret = WildPtr(k.priority_queue_heads[priority]),
                         !.priority_queue_heads[priority] = Wrap(@ + 1)]
       ELSE [k EXCEPT !.ret = process_get_by_pid(k, IDLE_PID)]

(* scheduler_get_next_process: the selection, called by another name. *)
scheduler_get_next_process(k) == select_next_process(k)

add_to_priority_queue(k, process) ==
    IF process = NULL THEN {k}
    ELSE {IF UGt(priority, MAX_PRIORITY) THEN [k EXCEPT !.fault = TRUE]
          ELSE IF k.priority_queue_tails[priority] < MAX_PROCESSES
          THEN [k EXCEPT !.priority_queues[priority][k.priority_queue_tails[priority]]
                             = process,
                         !.priority_queue_tails[priority] = @ + 1]
          ELSE k
          : priority \in get_effective_priority(k, process)}

RECURSIVE FindLinear(_, _, _, _)
FindLinear(q, i, tail, process) ==
    IF ~(i < tail) THEN 0 - 1
    ELSE IF q[i] = process THEN i
    ELSE FindLinear(q, i + 1, tail, process)

RECURSIVE ShiftLinear(_, _, _)
ShiftLinear(q, j, tail) ==
    IF ~(j < tail - 1) THEN q
    ELSE ShiftLinear([q EXCEPT ![j] = q[j + 1]], j + 1, tail)

remove_from_priority_queue(k, process) ==
    IF process = NULL THEN {k}
    ELSE {IF UGt(priority, MAX_PRIORITY) THEN [k EXCEPT !.fault = TRUE]
          ELSE LET i == FindLinear(k.priority_queues[priority],
                                   k.priority_queue_heads[priority],
                                   k.priority_queue_tails[priority], process)
               IN IF i = 0 - 1 THEN k
                  ELSE [k EXCEPT !.priority_queues[priority] =
                                     ShiftLinear(@, i, k.priority_queue_tails[priority]),
                                 !.priority_queue_tails[priority] = @ - 1]
          : priority \in get_effective_priority(k, process)}

(* The statistics update with the boosted-task counter taken up on every  *)
(* switch.                                                                 *)
CountSwitchBoostAlways(k, ai) ==
    [k EXCEPT !.scheduler_stats.total_switches = @ + 1,
              !.scheduler_stats.ai_task_switches = @ + 1,
              !.scheduler_stats.last_switch_time = k.uptime]

(* The statistics update at the end of context_switch; ai is               *)
(* new_process && new_process->ai_priority.                                *)
CountSwitch(k, ai) ==
    [k EXCEPT !.scheduler_stats.total_switches = @ + 1,
              !.scheduler_stats.ai_task_switches = IF ai THEN @ + 1 ELSE @,
              !.scheduler_stats.last_switch_time = k.uptime]

context_switch(k, old_process, new_process) ==
    IF old_process = new_process THEN {k}
    ELSE
      LET saved ==
            IF old_process = NULL THEN {k}
            ELSE UNION {IF state = PROCESS_RUNNING
                        THEN add_to_priority_queue(
                                 WriteState(process_save_context(k, old_process),
                                            old_process, PROCESS_READY),
                                 old_process)
                        ELSE {k}
                        : state \in ReadState(k, old_process)}
          restored(k1) ==
            LET k2 == IF new_process # NULL
                      THEN WriteState(process_restore_context(k1, new_process),
                                      new_process, PROCESS_RUNNING)
                      ELSE k1
            IN {CountSwitch(k2, ai)
                : ai \in IF new_process = NULL THEN {FALSE}
                         ELSE ReadAiPriority(k2, new_process)}
      IN Bind(saved, restored)

schedule_next_process(k) ==
    LET k1 == select_next_process(k)
        new_process == k1.ret
        switched == IF new_process # k1.current_process
                    THEN context_switch(k1, k1.current_process, new_process)
                    ELSE {k1}
        update(k2) ==
            LET k3 == [k2 EXCEPT !.current_process = new_process]
            IN IF new_process # NULL
               THEN {[WriteState(k3, new_process, PROCESS_RUNNING)
                        EXCEPT !.scheduler_stats.current_quantum = 0]}
               ELSE {k3}
    IN Bind(switched, update)

scheduler_add_process(k, process) ==
    IF process = NULL THEN {k}
    ELSE Bind(add_to_priority_queue(WriteState(k, process, PROCESS_READY), process),
              LAMBDA k1 : IF k1.current_process = NULL
                          THEN schedule_next_process(k1)
                          ELSE {k1})

scheduler_remove_process(k, pid) ==
    LET process == process_get_by_pid(k, pid)
    IN IF process = NULL THEN {k}
       ELSE Bind(remove_from_priority_queue(k, process),
                 LAMBDA k1 : IF k1.current_process = process
                             THEN schedule_next_process(
                                      [k1 EXCEPT !.current_process = NULL])
                             ELSE {k1})

ClampPriority(priority) ==
    IF UGt(priority, MAX_PRIORITY) THEN MAX_PRIORITY
    ELSE IF ULt(priority, MIN_PRIORITY) THEN MIN_PRIORITY
    ELSE priority

scheduler_set_priority(k, pid, priority) ==
    LET process == process_get_by_pid(k, pid)
    IN IF process = NULL THEN {k}
       ELSE Bind(remove_from_priority_queue(k, process),
                 LAMBDA k1 : add_to_priority_queue(
                     [k1 EXCEPT !.processes[process].priority = ClampPriority(priority)],
                     process))

scheduler_set_ai_priority(k, pid, ai_priority) ==
    LET process == process_get_by_pid(k, pid)
    IN IF process = NULL THEN {k}
       ELSE Bind(remove_from_priority_queue(k, process),
                 LAMBDA k1 : add_to_priority_queue(
                     [k1 EXCEPT !.processes[process].ai_priority = ai_priority],
                     process))

update_scheduler_stats(k) ==
    IF k.current_process = NULL
    THEN {[k EXCEPT !.scheduler_stats.idle_time = @ + 1]}
    ELSE {IF state = PROCESS_RUNNING
          THEN [k EXCEPT !.scheduler_stats.current_quantum = @ + 1]
          ELSE [k EXCEPT !.scheduler_stats.idle_time = @ + 1]
          : state \in ReadState(k, k.current_process)}

scheduler_run(k) ==
    LET k1 == [process_check_wakeups(k) EXCEPT !.scheduler_tick_count = @ + 1]
        decided == UNION {IF switch THEN schedule_next_process(k1) ELSE {k1}
                          : switch \in should_switch_process(k1)}
    IN Bind(decided, update_scheduler_stats)

scheduler_yield(k) ==
    IF k.current_process = NULL THEN {k}
    ELSE Bind(add_to_priority_queue(
                  WriteState(k, k.current_process, PROCESS_READY), k.current_process),
              schedule_next_process)

scheduler_sleep(k, milliseconds) ==
    IF k.current_process = NULL THEN {k}
    ELSE UNION {schedule_next_process(process_sleep(k, pid, milliseconds))
                : pid \in ReadPid(k, k.current_process)}

scheduler_wake(k, pid) ==
    LET process == process_get_by_pid(k, pid)
    IN IF process = NULL \/ k.processes[process].state # PROCESS_WAITING THEN {k}
       ELSE Bind(add_to_priority_queue(process_wake(k, pid), process),
                 LAMBDA k1 :
                   IF k1.current_process = NULL THEN {k1}
                   ELSE UNION {IF UGt(mine, theirs)
                               THEN schedule_next_process(k1) ELSE {k1}
                               : mine \in get_effective_priority(k1, process),
                                 theirs \in get_effective_priority(k1, k1.current_process)})

scheduler_get_ready_count(k) ==
    LET RECURSIVE Sum(_)
        Sum(i) == IF i > MAX_PRIORITY THEN 0
                  ELSE k.priority_queue_tails[i] - k.priority_queue_heads[i] + Sum(i + 1)
    IN Sum(MIN_PRIORITY)

(* ------------------------------------------------------------------ *)
(* The state machine: boot, then one public call per step.             *)
(* ------------------------------------------------------------------ *)

(* The statics' initializers, before kernel_init runs. *)
Statics ==
    [processes |-> [i \in Slots |-> ZeroProcess], next_pid |-> 1,
     proc_current_process |-> NULL, total_processes |-> 0, active_processes |-> 0,
     ready_queue |-> [i \in 0..(MAX_PROCESSES - 1) |-> NULL],
     ready_queue_head |-> 0, ready_queue_tail |-> 0,
     waiting_queue |-> [i \in 0..(MAX_PROCESSES - 1) |-> NULL],
     waiting_queue_head |-> 0, waiting_queue_tail |-> 0,
     scheduler_stats |-> [total_switches |-> 0, ai_task_switches |-> 0,
                          idle_time |-> 0, last_switch_time |-> 0,
                          current_quantum |-> 0],
     scheduler_tick_count |-> 0, current_process |-> NULL,
     priority_queues |-> [p \in 0..MAX_PRIORITY |->
                             [i \in 0..(MAX_PROCESSES - 1) |-> NULL]],
     priority_queue_heads |-> [p \in 0..MAX_PRIORITY |-> 0],
     priority_queue_tails |-> [p \in 0..MAX_PRIORITY |-> 0],
     heap |-> <<>>, used_memory |-> 0,
     page_directory |-> [i \in UserPages |-> 0],
     uptime |-> 0, registers |-> BootRegisters, fault |-> FALSE, ret |-> 0]

kernel_init == scheduler_init(process_init(memory_init(Statics)))

(* The LLM engine as its constructor leaves it: running false, no worker   *)
(* thread, an empty request queue.  request_queue is the queue's length,   *)
(* queue_mutex its owner, worker and stop the positions of the worker      *)
(* thread and of a caller of stop(), submit that of a caller of            *)
(* submit_request().                                                       *)
LLMEngine ==
    [running |-> FALSE, request_queue |-> 0, submitted |-> 0,
     queue_mutex |-> "free", worker |-> "none", stop |-> "idle", submit |-> "idle"]

Init ==
    /\ Is(kernel_init)
    /\ last = [op |-> "kernel_init", id |-> 0, ret |-> 0]
    /\ issued = <<kernel_init.processes[1].pid>>
    /\ pointers = [live |-> {}, freed |-> {}]
    /\ steps = 0
    /\ engine = LLMEngine

(* One call: the kernel becomes one of the states the call can leave. *)
Step(op, id, outcomes) ==
    /\ ~fault
    /\ \E k \in outcomes :
          /\ Becomes(k)
          /\ last' = [op |-> op, id |-> id, ret |-> k.ret]
          /\ issued' = IF op = "process_create" /\ k.ret > 0
                       THEN Append(issued, k.ret) ELSE issued
          /\ pointers' =
                IF op = "kmalloc" /\ k.ret # NULL
                THEN [live |-> pointers.live \cup {k.ret},
                      freed |-> pointers.freed \ {k.ret}]
                ELSE IF op = "kfree" /\ id # NULL
                THEN [live |-> pointers.live \ {id},
                      freed |-> pointers.freed \cup {id}]
                ELSE pointers
    /\ steps' = steps + 1
    /\ engine' = engine

Call(op, id, outcomes) == steps < MaxSteps /\ Step(op, id, outcomes)

Void(S) == {[k EXCEPT !.ret = 0] : k \in S}

(* A process_t* a caller can hold: what process_get_by_pid hands out. *)
PtrInputs == {process_get_by_pid(Kernel, pid) : pid \in PidInputs}

ProcessCreate ==
    Call("process_create", 0, {process_create(Kernel)})

ProcessDestroy ==
    \E pid \in PidInputs :
        Call("process_destroy", pid, Void({process_destroy(Kernel, pid)}))

ProcessSetPriority ==
    \E pid \in PidInputs, priority \in PriorityInputs :
        Call("process_set_priority", pid,
             Void({process_set_priority(Kernel, pid, priority)}))

ProcessSetAiPriority ==
    \E pid \in PidInputs, ai_priority \in BOOLEAN :
        Call("process_set_ai_priority", pid,
             Void({process_set_ai_priority(Kernel, pid, ai_priority)}))

ProcessSleep ==
    \E pid \in PidInputs, milliseconds \in SleepInputs :
        Call("process_sleep", pid,
             Void({process_sleep(Kernel, pid, milliseconds)}))

ProcessWake ==
    \E pid \in PidInputs :
        Call("process_wake", pid, Void({process_wake(Kernel, pid)}))

ProcessGetNextReady ==
    Call("process_get_next_ready", 0, {process_get_next_ready(Kernel)})

ProcessAddToReady ==
    \E process \in PtrInputs :
        Call("process_add_to_ready", process,
             Void({process_add_to_ready(Kernel, process)}))

ProcessCheckWakeups ==
    Call("process_check_wakeups", 0, Void({process_check_wakeups(Kernel)}))

SchedulerRun ==
    Call("scheduler_run", 0, Void(scheduler_run(Kernel)))

SelectNextProcess ==
    Call("select_next_process", 0, {select_next_process(Kernel)})

SchedulerAddProcess ==
    \E process \in PtrInputs :
        Call("scheduler_add_process", process,
             Void(scheduler_add_process(Kernel, process)))

SchedulerRemoveProcess ==
    \E pid \in PidInputs :
        Call("scheduler_remove_process", pid,
             Void(scheduler_remove_process(Kernel, pid)))

SchedulerSetPriority ==
    \E pid \in PidInputs, priority \in PriorityInputs :
        Call("scheduler_set_priority", pid,
             Void(scheduler_set_priority(Kernel, pid, priority)))

SchedulerSetAiPriority ==
    \E pid \in PidInputs, ai_priority \in BOOLEAN :
        Call("scheduler_set_ai_priority", pid,
             Void(scheduler_set_ai_priority(Kernel, pid, ai_priority)))

SchedulerYield ==
    Call("scheduler_yield", 0, Void(scheduler_yield(Kernel)))

SchedulerSleep ==
    \E milliseconds \in SleepInputs :
        Call("scheduler_sleep", 0,
             Void(scheduler_sleep(Kernel, milliseconds)))

SchedulerWake ==
    \E pid \in PidInputs :
        Call("scheduler_wake", pid, Void(scheduler_wake(Kernel, pid)))

(* get_uptime's clock, which the kernel only reads. *)
AdvanceClock ==
    /\ ~fault
    /\ uptime < MaxUptime
    /\ uptime' = uptime + 1
    /\ UNCHANGED <<processes, next_pid, proc_current_process, total_processes,
                   active_processes, ready_queue, ready_queue_head, ready_queue_tail,
                   waiting_queue, waiting_queue_head, waiting_queue_tail,
                   scheduler_stats, scheduler_tick_count, current_process,
                   priority_queues, priority_queue_heads, priority_queue_tails,
                   heap, used_memory, page_directory, registers, fault, last, issued,
                   pointers, steps, engine>>

Next ==
    \/ ProcessCreate
    \/ ProcessDestroy
    \/ ProcessSetPriority
    \/ ProcessSetAiPriority
    \/ ProcessSleep
    \/ ProcessWake
    \/ ProcessGetNextReady
    \/ ProcessAddToReady
    \/ ProcessCheckWakeups
    \/ SchedulerRun
    \/ SelectNextProcess
    \/ SchedulerAddProcess
    \/ SchedulerRemoveProcess
    \/ SchedulerSetPriority
    \/ SchedulerSetAiPriority
    \/ SchedulerYield
    \/ SchedulerSleep
    \/ SchedulerWake
    \/ AdvanceClock

Spec == Init /\ [][Next]_vars

(* The process table alone: create and destroy, over longer runs. *)
TableCreate ==
    steps < MaxTableSteps /\ Step("process_create", 0, {process_create(Kernel)})

TableDestroy ==
    \E pid \in TablePidInputs :
        steps < MaxTableSteps
        /\ Step("process_destroy", pid, Void({process_destroy(Kernel, pid)}))

TableNext == TableCreate \/ TableDestroy

TableSpec == Init /\ [][TableNext]_vars

(* The heap allocator alone, from memory_init on.  kfree is called with   *)
(* NULL and with pointers kmalloc has returned, live or already released. *)
(* The sizes requested include one whose alignment wraps size_t.          *)
SizeInputs == {0, 8, 16, KERNEL_HEAP_SIZE, SIZE_MAX - 3}

HeapInit ==
    /\ Is(memory_init(Statics))
    /\ last = [op |-> "memory_init", id |-> 0, ret |-> 0]
    /\ issued = <<>>
    /\ pointers = [live |-> {}, freed |-> {}]
    /\ steps = 0
    /\ engine = LLMEngine

Kmalloc ==
    \E size \in SizeInputs :
        steps < MaxHeapSteps /\ Step("kmalloc", size, {kmalloc(Kernel, size)})

Kfree ==
    \E ptr \in {NULL} \cup pointers.live \cup pointers.freed :
        steps < MaxHeapSteps
        /\ Step("kfree", ptr, Void(kfree_outcomes(Kernel, ptr)))

MemoryGetStats ==
    steps < MaxHeapSteps
    /\ Step("memory_get_stats", 0,
            {[Kernel EXCEPT !.ret = memory_get_stats(Kernel).free]})

HeapNext == Kmalloc \/ Kfree \/ MemoryGetStats

HeapSpec == HeapInit /\ [][HeapNext]_vars

(* The page manager on top of the heap. *)
PageAddrInputs == {i * PAGE_FRAME : i \in FIRST_USER_PAGE..(FIRST_USER_PAGE + USER_PAGES)}

PageAlloc ==
    steps < MaxPageSteps /\ Step("page_alloc", 0, {page_alloc(Kernel)})

PageFree ==
    \E addr \in PageAddrInputs :
        steps < MaxPageSteps /\ Step("page_free", addr, Void(page_free(Kernel, addr)))

PageKmalloc ==
    \E size \in {8, PAGE_SIZE} :
        steps < MaxPageSteps /\ Step("kmalloc", size, {kmalloc(Kernel, size)})

PageKfree ==
    \E ptr \in pointers.live :
        steps < MaxPageSteps /\ Step("kfree", ptr, Void(kfree_outcomes(Kernel, ptr)))

PageNext == PageAlloc \/ PageFree \/ PageKmalloc \/ PageKfree

PageSpec == HeapInit /\ [][PageNext]_vars

(* Sleeping and waking, over runs long enough for two sleepers. *)
SleepPidInputs == 1..MAX_PROCESSES

SleepCreate ==
    steps < MaxSleepSteps /\ Step("process_create", 0, {process_create(Kernel)})

SleepSleep ==
    \E pid \in SleepPidInputs, milliseconds \in SleepInputs :
        steps < MaxSleepSteps
        /\ Step("process_sleep", pid, Void({process_sleep(Kernel, pid, milliseconds)}))

SleepWake ==
    \E pid \in PidInputs :
        steps < MaxSleepSteps
        /\ Step("process_wake", pid, Void({process_wake(Kernel, pid)}))

SleepCheckWakeups ==
    steps < MaxSleepSteps
    /\ Step("process_check_wakeups", 0, Void({process_check_wakeups(Kernel)}))

SleepNext == SleepCreate \/ SleepSleep \/ SleepWake \/ SleepCheckWakeups \/ AdvanceClock

SleepSpec == Init /\ [][SleepNext]_vars

(* context_switch itself, between PCBs of the table, next to the selection *)
(* that takes entries off the buckets.                                     *)
MaxSwitchSteps == 6

SwitchPtrInputs ==
    {NULL} \cup {process \in Slots : processes[process].pid >= 1
                                       /\ processes[process].state # PROCESS_TERMINATED}

SwitchCreate ==
    steps < MaxSwitchSteps /\ Step("process_create", 0, {process_create(Kernel)})

SwitchContextSwitch ==
    \E old_process \in SwitchPtrInputs, new_process \in SwitchPtrInputs :
        steps < MaxSwitchSteps
        /\ Step("context_switch", <<old_process, new_process>>,
                Void(context_switch(Kernel, old_process, new_process)))

SwitchSelect ==
    steps < MaxSwitchSteps
    /\ Step("select_next_process", 0, {select_next_process(Kernel)})

SwitchNext == SwitchCreate \/ SwitchContextSwitch \/ SwitchSelect

SwitchSpec == Init /\ [][SwitchNext]_vars

(* scheduler_get_next_process next to the calls that fill the buckets.     *)
MaxPeekSteps == 5

PeekCreate ==
    steps < MaxPeekSteps /\ Step("process_create", 0, {process_create(Kernel)})

PeekAddProcess ==
    \E process \in SwitchPtrInputs :
        steps < MaxPeekSteps
        /\ Step("scheduler_add_process", process,
                Void(scheduler_add_process(Kernel, process)))

PeekGetNext ==
    steps < MaxPeekSteps
    /\ Step("scheduler_get_next_process", 0, {scheduler_get_next_process(Kernel)})

PeekNext == PeekCreate \/ PeekAddProcess \/ PeekGetNext

PeekSpec == Init /\ [][PeekNext]_vars

(* The scheduler tick over runs long enough for a quantum to expire, with  *)
(* a few other calls in between.                                           *)
MaxTicks == 12
MaxTickCalls == 2

TickCall(op, id, outcomes) ==
    steps - scheduler_tick_count < MaxTickCalls /\ Step(op, id, outcomes)

TickCreate ==
    TickCall("process_create", 0, {process_create(Kernel)})

TickSetPriority ==
    \E pid \in SleepPidInputs, priority \in PriorityInputs :
        TickCall("scheduler_set_priority", pid,
                 Void(scheduler_set_priority(Kernel, pid, priority)))

TickDestroy ==
    \E pid \in SleepPidInputs :
        TickCall("process_destroy", pid, Void({process_destroy(Kernel, pid)}))

TickRun ==
    scheduler_tick_count < MaxTicks
    /\ Step("scheduler_run", 0, Void(scheduler_run(Kernel)))

TickNext == TickCreate \/ TickSetPriority \/ TickDestroy \/ TickRun

TickSpec == Init /\ [][TickNext]_vars

(* The kernel's main loop: it calls scheduler_run over and over, so the     *)
(* tick is taken whenever it can be.  Processes are created and handed to  *)
(* the scheduler by a few calls before the loop starts; nothing sleeps, is *)
(* destroyed or has its priority changed.                                  *)
MaxRotationTicks == 13
MaxRotationCalls == 3

(* Ticks within which the PCB that holds the core has used up its quantum  *)
(* and the next one has been switched to.                                  *)
RotationHorizon == DEFAULT_QUANTUM + 2

RotationCall(op, id, outcomes) ==
    scheduler_tick_count = 0 /\ steps < MaxRotationCalls /\ Step(op, id, outcomes)

RotationCreate ==
    RotationCall("process_create", 0, {process_create(Kernel)})

RotationAddProcess ==
    \E process \in SwitchPtrInputs \ {NULL} :
        RotationCall("scheduler_add_process", process,
                     Void(scheduler_add_process(Kernel, process)))

RotationRun ==
    scheduler_tick_count < MaxRotationTicks
    /\ Step("scheduler_run", 0, Void(scheduler_run(Kernel)))

RotationNext == RotationCreate \/ RotationAddProcess \/ RotationRun

(* A step of RotationRun, told by the tick counter only it advances. *)
RotationTick ==
    /\ scheduler_tick_count < MaxRotationTicks
    /\ ~fault
    /\ scheduler_tick_count' = scheduler_tick_count + 1

RotationSpec == Init /\ [][RotationNext]_vars /\ WF_scheduler_tick_count(RotationTick)

(* The main loop's ticks after processes have been created and put to      *)
(* sleep, with the clock running.                                          *)
MaxWakeTicks == 13
MaxWakeCalls == 3

WakeCall(op, id, outcomes) ==
    scheduler_tick_count = 0 /\ steps < MaxWakeCalls /\ Step(op, id, outcomes)

WakeCreate ==
    WakeCall("process_create", 0, {process_create(Kernel)})

WakeSleep ==
    \E pid \in SleepPidInputs, milliseconds \in SleepInputs :
        WakeCall("process_sleep", pid,
                 Void({process_sleep(Kernel, pid, milliseconds)}))

WakeRun ==
    scheduler_tick_count < MaxWakeTicks
    /\ Step("scheduler_run", 0, Void(scheduler_run(Kernel)))

WakeNext == WakeCreate \/ WakeSleep \/ WakeRun \/ AdvanceClock

(* A step of WakeRun, told by the tick counter only it advances. *)
WakeTick ==
    /\ scheduler_tick_count < MaxWakeTicks
    /\ ~fault
    /\ scheduler_tick_count' = scheduler_tick_count + 1

WakeSpec == Init /\ [][WakeNext]_vars /\ WF_scheduler_tick_count(WakeTick)

(* The LLM engine's worker thread next to a caller of stop() and callers  *)
(* of submit_request(), one statement at a time.                           *)
MaxRequests == 2

KernelState ==
    <<processes, next_pid, proc_current_process, total_processes, active_processes,
      ready_queue, ready_queue_head, ready_queue_tail,
      waiting_queue, waiting_queue_head, waiting_queue_tail,
      scheduler_stats, scheduler_tick_count, current_process,
      priority_queues, priority_queue_heads, priority_queue_tails,
      heap, used_memory, page_directory, uptime, registers, fault, last, issued,
      pointers, steps>>

(* initialize(): running = true, and the worker thread starts at the top   *)
(* of worker_loop.                                                         *)
initialize(e) == [e EXCEPT !.running = TRUE, !.worker = "while"]

EngineInit ==
    /\ Is(kernel_init)
    /\ last = [op |-> "kernel_init", id |-> 0, ret |-> 0]
    /\ issued = <<kernel_init.processes[1].pid>>
    /\ pointers = [live |-> {}, freed |-> {}]
    /\ steps = 0
    /\ engine = initialize(LLMEngine)

(* What the worker can read from the plain bool running.  stop() writes it *)
(* without the mutex and it is not atomic, so once stop() has cleared it a *)
(* read that nothing orders after the write sees either value.             *)
ReadRunning(e) == IF e.running THEN {TRUE} ELSE {TRUE, FALSE}

(* queue_cv.notify_one() and notify_all(): a thread blocked in wait is     *)
(* made runnable; with no thread blocked the call has no effect.           *)
Notified(e) == IF e.worker = "waiting" THEN [e EXCEPT !.worker = "woken"] ELSE e

(* stop(): running = false. *)
StopClearRunning ==
    /\ engine.stop = "idle"
    /\ engine' = [engine EXCEPT !.running = FALSE, !.stop = "notify"]
    /\ UNCHANGED KernelState

(* stop(): queue_cv.notify_all(). *)
StopNotifyAll ==
    /\ engine.stop = "notify"
    /\ engine' = [Notified(engine) EXCEPT !.stop = "join"]
    /\ UNCHANGED KernelState

(* stop(): worker_thread.join() returns once the worker has left its loop. *)
StopJoin ==
    /\ engine.stop = "join"
    /\ engine.worker = "done"
    /\ engine' = [engine EXCEPT !.stop = "returned"]
    /\ UNCHANGED KernelState

(* submit_request(): the lock_guard takes queue_mutex. *)
SubmitLock ==
    /\ engine.submit = "idle"
    /\ engine.submitted < MaxRequests
    /\ engine.queue_mutex = "free"
    /\ engine' = [engine EXCEPT !.queue_mutex = "submit", !.submit = "push"]
    /\ UNCHANGED KernelState

(* submit_request(): push, notify_one, and the lock_guard's release. *)
SubmitPush ==
    /\ engine.submit = "push"
    /\ engine' = [Notified(engine) EXCEPT !.request_queue = @ + 1,
                                          !.submitted = @ + 1,
                                          !.queue_mutex = "free",
                                          !.submit = "idle"]
    /\ UNCHANGED KernelState

(* worker_loop: while (running). *)
WorkerWhile ==
    /\ engine.worker = "while"
    /\ \E r \in ReadRunning(engine) :
          engine' = [engine EXCEPT !.worker = IF r THEN "lock" ELSE "done"]
    /\ UNCHANGED KernelState

(* worker_loop: the unique_lock takes queue_mutex. *)
WorkerLock ==
    /\ engine.worker = "lock"
    /\ engine.queue_mutex = "free"
    /\ engine' = [engine EXCEPT !.queue_mutex = "worker", !.worker = "predicate"]
    /\ UNCHANGED KernelState

(* queue_cv.wait(lock, pred): the predicate                                *)
(* !request_queue.empty() || !running, evaluated holding the mutex.        *)
WorkerPredicate ==
    /\ engine.worker = "predicate"
    /\ \E r \in ReadRunning(engine) :
          engine' = [engine EXCEPT !.worker = IF engine.request_queue # 0 \/ ~r
                                              THEN "check" ELSE "block"]
    /\ UNCHANGED KernelState

(* queue_cv.wait(lock, pred): the predicate was false; the thread releases *)
(* the mutex and blocks on the condition variable, in one step.            *)
WorkerBlock ==
    /\ engine.worker = "block"
    /\ engine' = [engine EXCEPT !.queue_mutex = "free", !.worker = "waiting"]
    /\ UNCHANGED KernelState

(* queue_cv.wait(lock, pred): a thread made runnable takes the mutex again *)
(* and evaluates the predicate again.                                      *)
WorkerReacquire ==
    /\ engine.worker = "woken"
    /\ engine.queue_mutex = "free"
    /\ engine' = [engine EXCEPT !.queue_mutex = "worker", !.worker = "predicate"]
    /\ UNCHANGED KernelState

(* worker_loop after the wait: break if !running, continue on an empty     *)
(* queue, else take the front request; the lock goes out of scope.         *)
WorkerCheck ==
    /\ engine.worker = "check"
    /\ \E r \in ReadRunning(engine) :
          engine' = IF ~r
                    THEN [engine EXCEPT !.queue_mutex = "free", !.worker = "done"]
                    ELSE IF engine.request_queue = 0
                    THEN [engine EXCEPT !.queue_mutex = "free", !.worker = "while"]
                    ELSE [engine EXCEPT !.queue_mutex = "free",
                                        !.request_queue = @ - 1,
                                        !.worker = "generate"]
    /\ UNCHANGED KernelState

(* worker_loop: generate and handle_response, outside the lock. *)
WorkerGenerate ==
    /\ engine.worker = "generate"
    /\ engine' = [engine EXCEPT !.worker = "while"]
    /\ UNCHANGED KernelState

(* A wait on a condition variable may return without a notification. *)
SpuriousWakeup ==
    /\ engine.worker = "waiting"
    /\ engine' = [engine EXCEPT !.worker = "woken"]
    /\ UNCHANGED KernelState

WorkerStep ==
    \/ WorkerWhile
    \/ WorkerLock
    \/ WorkerPredicate
    \/ WorkerBlock
    \/ WorkerReacquire
    \/ WorkerCheck
    \/ WorkerGenerate

StopStep == StopNotifyAll \/ StopJoin

EngineNext ==
    \/ StopClearRunning
    \/ StopStep
    \/ SubmitLock
    \/ SubmitPush
    \/ WorkerStep
    \/ SpuriousWakeup

(* Every thread that can run is run: the worker, the caller of stop() once *)
(* it is in stop(), and a caller of submit_request() holding the mutex.    *)
(* Nothing obliges a condition variable to wake spuriously or a client to  *)
(* submit a request.                                                       *)
EngineSpec ==
    /\ EngineInit
    /\ [][EngineNext]_vars
    /\ WF_vars(WorkerStep)
    /\ WF_vars(StopStep)
    /\ WF_vars(SubmitPush)

(* ------------------------------------------------------------------ *)
(* Queue membership, as the code's own loops read the queues.          *)
(* ------------------------------------------------------------------ *)

Buckets == MIN_PRIORITY..MAX_PRIORITY

(* Occurrences of process between head and tail of one bucket. *)
BucketCount(process, priority) ==
    Cardinality({i \in 0..(MAX_PROCESSES - 1) :
                    /\ priority_queue_heads[priority] <= i
                    /\ i < priority_queue_tails[priority]
                    /\ priority_queues[priority][i] = process})

BucketTotal(process) ==
    LET RECURSIVE Sum(_)
        Sum(priority) == IF priority > MAX_PRIORITY THEN 0
                         ELSE BucketCount(process, priority) + Sum(priority + 1)
    IN Sum(MIN_PRIORITY)

CircularCount(q, head, tail, process) ==
    Cardinality({d \in 0..(MAX_PROCESSES - 1) :
                    /\ d < Wrap(tail - head + MAX_PROCESSES)
                    /\ q[Wrap(head + d)] = process})

WaitCount(process) ==
    CircularCount(waiting_queue, waiting_queue_head, waiting_queue_tail, process)

ReadyQueueCount(process) ==
    CircularCount(ready_queue, ready_queue_head, ready_queue_tail, process)

Running == {i \in Slots : processes[i].state = PROCESS_RUNNING}

(* The slots that hold a PCB process_create has made (ids start at 1). *)
Created == {i \in Slots : processes[i].pid >= 1}

(* ------------------------------------------------------------------ *)
(* Claims                                                              *)
(* ------------------------------------------------------------------ *)

(* C1: after any sequence of process-table and scheduler calls at most one *)
(* PCB is in state Running.                                                *)
C1_AtMostOneRunning == Cardinality(Running) <= 1

(* A PCB is still Running after scheduler_remove_process has taken it off  *)
(* the scheduler's current pointer.                                        *)
C1_Witness ==
    /\ last.op = "scheduler_remove_process"
    /\ \E i \in Running : processes[i].pid = last.id /\ current_process # i

(* C2: no PCB is at once in a priority bucket and in the wait queue, in    *)
(* two buckets, or twice in one structure.                                 *)
C2_OneStructure ==
    \A process \in Created : BucketTotal(process) + WaitCount(process) <= 1

(* C3: every Ready PCB is in a priority bucket and every Waiting PCB is in *)
(* the wait queue.                                                         *)
C3_Discoverable ==
    \A process \in Created :
        /\ processes[process].state = PROCESS_READY => BucketTotal(process) >= 1
        /\ processes[process].state = PROCESS_WAITING => WaitCount(process) >= 1

(* C4: select_next returns the PCB stored at the head of the highest       *)
(* non-empty bucket (and so serves each bucket in insertion order).        *)
C4_SelectReturnsHead ==
    [][(last'.op = "select_next_process" /\ steps' = steps + 1
        /\ \E priority \in Buckets : NonEmpty(Kernel, priority))
       => LET top == Max({priority \in Buckets : NonEmpty(Kernel, priority)})
              head == priority_queues[top][priority_queue_heads[top]]
          IN head \in Created => last'.ret = head]_vars

(* C5: after a priority or latency-boost setter returns for a Ready PCB,   *)
(* the PCB is in the bucket of its new effective priority, once, and in no *)
(* other bucket.                                                           *)
C5_Setters ==
    {"process_set_priority", "process_set_ai_priority",
     "scheduler_set_priority", "scheduler_set_ai_priority"}

C5_InNewBucketOnly ==
    \A process \in Slots :
        (/\ last.op \in C5_Setters
         /\ ~fault
         /\ processes[process].pid = last.id
         /\ process = process_get_by_pid(Kernel, last.id)
         /\ processes[process].state = PROCESS_READY)
        => LET effective == EffectivePriority(processes[process].priority,
                                              processes[process].ai_priority)
           IN /\ effective \in Buckets
              /\ BucketCount(process, effective) = 1
              /\ BucketTotal(process) = 1

(* C6: the idle process made at initialization is never destroyed, so      *)
(* select_next can return it whenever all buckets are empty.               *)
C6_IdleAlive == process_get_by_pid(Kernel, IDLE_PID) # NULL

(* C7: after destroy(id) of a live process the PCB is Terminated, its      *)
(* stack is back in the heap, lookup(id) finds nothing, the active count   *)
(* is one lower, and the PCB is in no bucket, not in the ready queue and   *)
(* not in the wait queue.                                                  *)
C7_DestroyCleans ==
    [][\A process \in Slots, pid \in 1..(MAX_PROCESSES + 2) :
        (/\ last'.op = "process_destroy" /\ steps' = steps + 1
         /\ last'.id = pid
         /\ process = process_get_by_pid(Kernel, pid))
        => /\ processes'[process].state = PROCESS_TERMINATED
           /\ processes'[process].stack = NULL
           /\ ~heap'[processes[process].stack - BLOCK_HEADER].used
           /\ process_get_by_pid(Kernel, pid)' = NULL
           /\ active_processes' = active_processes - 1
           /\ BucketTotal(process)' = 0
           /\ ReadyQueueCount(process)' = 0
           /\ WaitCount(process)' = 0]_vars

(* C8: destroy(id) of an id that names no live process (0, never issued,   *)
(* already destroyed) changes nothing.                                     *)
C8_DestroyUnknownIsNoOp ==
    [][(/\ last'.op = "process_destroy" /\ steps' = steps + 1
        /\ (last'.id = 0 \/ process_get_by_pid(Kernel, last'.id) = NULL))
       => Kernel' = Kernel]_vars

(* C9: the ids that successful creates return are strictly increasing, so  *)
(* none is returned twice, also across slot reuse and failed creates.      *)
C9_IdsIncreasing ==
    \A i, j \in DOMAIN issued : i < j => issued[i] < issued[j]

(* Three ids issued, the last to a PCB in a slot that a destroyed PCB left, *)
(* after a create that failed.                                             *)
C9_Witness ==
    /\ Len(issued) >= 3
    /\ \E n \in 2..Len(issued) : issued[n] > issued[n - 1] + 1
    /\ \E i \in Slots : processes[i].pid = issued[Len(issued)] /\ i < Len(issued)

(* C10: a successful create leaves the new PCB Ready with priority 5, no   *)
(* boost and quantum 10, and in the priority-5 bucket for select_next.     *)
C10_CreatedIsSchedulable ==
    (last.op = "process_create" /\ last.ret > 0)
    => LET process == process_get_by_pid(Kernel, last.ret)
       IN /\ process # NULL
          /\ processes[process].state = PROCESS_READY
          /\ processes[process].priority = DEFAULT_PRIORITY
          /\ ~processes[process].ai_priority
          /\ processes[process].quantum = DEFAULT_QUANTUM
          /\ BucketCount(process, DEFAULT_PRIORITY) = 1

(* C11: create fails only when no slot is Terminated or uninitialized or   *)
(* when the stack cannot be allocated: with a free slot and room in the    *)
(* heap it succeeds, after any number of create/destroy pairs.             *)
C11_CreateSucceedsWhenRoom ==
    [][(/\ last'.op = "process_create" /\ steps' = steps + 1
        /\ \E i \in Slots : \/ processes[i].state = PROCESS_TERMINATED
                             \/ processes[i].state = 0
        /\ BestFit(heap, KERNEL_HEAP_START, AlignUp(KERNEL_STACK_SIZE),
                   NULL, SIZE_MAX) # NULL)
       => last'.ret > 0]_vars

(* C12: a create that fails returns the failure value and leaves the slot  *)
(* it claimed Terminated, the queues, the total and active counts and the  *)
(* heap as they were.                                                      *)
C12_FailedCreateLeavesNothing ==
    [][(last'.op = "process_create" /\ steps' = steps + 1 /\ last'.ret <= 0)
       => /\ last'.ret = 0 - 1
          /\ \A i \in Slots : processes'[i] # processes[i]
                                => processes'[i].state = PROCESS_TERMINATED
          /\ ready_queue' = ready_queue
          /\ ready_queue_head' = ready_queue_head
          /\ ready_queue_tail' = ready_queue_tail
          /\ waiting_queue' = waiting_queue
          /\ waiting_queue_head' = waiting_queue_head
          /\ waiting_queue_tail' = waiting_queue_tail
          /\ priority_queues' = priority_queues
          /\ priority_queue_heads' = priority_queue_heads
          /\ priority_queue_tails' = priority_queue_tails
          /\ total_processes' = total_processes
          /\ active_processes' = active_processes
          /\ used_memory' = used_memory
          /\ heap' = heap]_vars

(* A create has just failed for want of a stack, after it claimed a slot.  *)
C12_Witness ==
    /\ last.op = "process_create" /\ last.ret = 0 - 1
    /\ \E i \in Slots : /\ processes[i].pid = next_pid - 1
                         /\ processes[i].state = PROCESS_TERMINATED
                         /\ processes[i].stack = NULL

(* C13: after every allocate and release, total = used + free in the       *)
(* statistics.                                                             *)
C13_StatsAddUp ==
    LET stats == memory_get_stats(Kernel)
    IN stats.total = stats.used + stats.free

(* The statistics are read with one allocation live and one released.      *)
C13_Witness ==
    /\ last.op = "memory_get_stats"
    /\ pointers.live # {} /\ pointers.freed # {}
    /\ used_memory # 0

(* C14: allocate(0) returns the failure value and changes neither the      *)
(* block list nor the statistics, in every heap state.                     *)
C14_ZeroSizeRejected ==
    [][(last'.op = "kmalloc" /\ steps' = steps + 1 /\ last'.id = 0)
       => /\ last'.ret = NULL
          /\ heap' = heap
          /\ used_memory' = used_memory]_vars

(* allocate(0) has been called on a heap with live and released blocks.    *)
C14_Witness ==
    /\ last.op = "kmalloc" /\ last.id = 0 /\ last.ret = NULL
    /\ pointers.live # {} /\ pointers.freed # {}

(* C15: a successful allocate never returns a pointer that is still live.  *)
C15_DistinctLivePointers ==
    [][(last'.op = "kmalloc" /\ steps' = steps + 1 /\ last'.ret # NULL)
       => last'.ret \notin pointers.live]_vars

(* An allocate has succeeded with another allocation live, after releases. *)
C15_Witness ==
    /\ last.op = "kmalloc" /\ last.ret # NULL
    /\ Cardinality(pointers.live) >= 2
    /\ pointers.freed # {}

(* C16: release of NULL or of a pointer already released changes neither   *)
(* the used statistic nor the block list.                                  *)
C16_ReleaseTwiceIsNoOp ==
    [][(/\ last'.op = "kfree" /\ steps' = steps + 1
        /\ (last'.id = NULL \/ last'.id \in pointers.freed))
       => /\ used_memory' = used_memory
          /\ heap' = heap
          /\ ~fault']_vars

(* C17: with every earlier allocation released, a request of the kernel    *)
(* heap size returns a non-null pointer.                                   *)
C17_HeapSizedRequest ==
    [][(/\ last'.op = "kmalloc" /\ steps' = steps + 1
        /\ last'.id = KERNEL_HEAP_SIZE
        /\ \A a \in Blocks(heap, KERNEL_HEAP_START) : ~heap[a].used)
       => last'.ret # NULL]_vars

(* C18: after check_wakeups every PCB that was Waiting in the wait queue   *)
(* with wake_time <= now is neither Waiting nor in the wait queue, and     *)
(* every one with wake_time > now is still Waiting in the wait queue.      *)
C18_SweepWakesAllDue ==
    [][\A process \in Created :
        (/\ last'.op = "process_check_wakeups" /\ steps' = steps + 1
         /\ processes[process].state = PROCESS_WAITING
         /\ WaitCount(process) = 1)
        => IF ULe(processes[process].wake_time, uptime)
           THEN /\ processes'[process].state # PROCESS_WAITING
                /\ WaitCount(process)' = 0
           ELSE /\ processes'[process].state = PROCESS_WAITING
                /\ WaitCount(process)' = 1]_vars

(* C19: wake of an unknown id or of a PCB that is not Waiting changes no   *)
(* PCB and no queue.                                                       *)
C19_Wakes == {"process_wake", "scheduler_wake"}

C19_WakeNotWaitingIsNoOp ==
    [][(/\ last'.op \in C19_Wakes /\ steps' = steps + 1
        /\ \A process \in Slots :
              (processes[process].pid = last'.id
               /\ processes[process].state # PROCESS_TERMINATED)
              => processes[process].state # PROCESS_WAITING)
       => /\ processes' = processes
          /\ ready_queue' = ready_queue
          /\ ready_queue_head' = ready_queue_head
          /\ ready_queue_tail' = ready_queue_tail
          /\ waiting_queue' = waiting_queue
          /\ waiting_queue_head' = waiting_queue_head
          /\ waiting_queue_tail' = waiting_queue_tail
          /\ priority_queues' = priority_queues
          /\ priority_queue_heads' = priority_queue_heads
          /\ priority_queue_tails' = priority_queue_tails
          /\ current_process' = current_process]_vars

(* wake has been called for a PCB that is Running or Terminated.           *)
C19_Witness ==
    /\ last.op \in C19_Wakes
    /\ \E process \in Created :
          /\ processes[process].pid = last.id
          /\ processes[process].state \in {PROCESS_RUNNING, PROCESS_TERMINATED}

(* C20: page_free of an address page_alloc returned hands to release the   *)
(* pointer allocate returned, clears the entry, leaves the backing block   *)
(* free and takes the page's size off the used statistic.                  *)
C20_PageFreeReleasesBacking ==
    [][\A i \in UserPages :
        (/\ last'.op = "page_free" /\ steps' = steps + 1
         /\ last'.id = i * PAGE_FRAME
         /\ page_directory[i] % 2 = 1)
        => LET ptr == page_directory[i] - PAGE_FLAGS
           IN /\ PagePhysical(page_directory[i]) = ptr
              /\ page_directory'[i] = 0
              /\ ~heap'[ptr - BLOCK_HEADER].used
              /\ used_memory' = used_memory - AlignUp(PAGE_SIZE)]_vars

(* C21: page_free of an address whose index lies past the table, or whose *)
(* entry is not present, changes no page-table entry and no heap state    *)
(* and reports nothing.                                                    *)
C21_PageFreeInvalidIsNoOp ==
    [][(/\ last'.op = "page_free" /\ steps' = steps + 1
        /\ LET page_index == last'.id \div PAGE_FRAME
           IN \/ page_index >= FIRST_USER_PAGE + USER_PAGES
              \/ page_directory[page_index] % 2 = 0)
       => /\ page_directory' = page_directory
          /\ heap' = heap
          /\ used_memory' = used_memory
          /\ fault' = fault
          /\ last'.ret = 0]_vars

(* page_free has been called on an address past the table while a page is *)
(* mapped.                                                                 *)
C21_Witness ==
    /\ last.op = "page_free"
    /\ last.id \div PAGE_FRAME >= FIRST_USER_PAGE + USER_PAGES
    /\ \E i \in UserPages : page_directory[i] % 2 = 1

(* C22: every live PCB has a base priority within 1..10, whatever level   *)
(* the setters were given, and so an effective priority that names one of *)
(* the ten buckets.                                                        *)
C22_PriorityInRange ==
    \A process \in Created :
        processes[process].state # PROCESS_TERMINATED
        => /\ processes[process].priority \in Buckets
           /\ EffectivePriority(processes[process].priority,
                                processes[process].ai_priority) \in Buckets

(* C23: while the buckets hold created PCBs, ready_count() is the number  *)
(* of PCBs in state Ready that are held in the buckets 1..10, each        *)
(* counted once.                                                           *)
C23_ReadyCountCountsReady ==
    (\A process \in Slots \ Created : BucketTotal(process) = 0)
    => scheduler_get_ready_count(Kernel)
         = Cardinality({process \in Created :
                            /\ processes[process].state = PROCESS_READY
                            /\ BucketTotal(process) >= 1})

(* C24: with no current process or a PCB of the table as current process, *)
(* should_switch is true exactly when there is no current process, or its *)
(* state is not Running, or the elapsed quantum has reached its budget,   *)
(* or a bucket of strictly higher effective priority holds an entry.      *)
C24_ShouldSwitchExactly ==
    ~IsWild(current_process)
    => should_switch_process(Kernel) =
         {\/ current_process = NULL
          \/ processes[current_process].state # PROCESS_RUNNING
          \/ scheduler_stats.current_quantum >= processes[current_process].quantum
          \/ \E priority \in Buckets :
                /\ priority > EffectivePriority(processes[current_process].priority,
                                                processes[current_process].ai_priority)
                /\ \E i \in 0..(MAX_PROCESSES - 1) :
                      /\ priority_queue_heads[priority] <= i
                      /\ i < priority_queue_tails[priority]}

(* The process the first call made Running has just been destroyed, and   *)
(* should_switch is true.                                                  *)
C24_Witness ==
    /\ steps = 2
    /\ last.op = "process_destroy"
    /\ current_process \in Created
    /\ processes[current_process].pid = last.id
    /\ processes[current_process].state = PROCESS_TERMINATED
    /\ scheduler_stats.current_quantum < processes[current_process].quantum
    /\ should_switch_process(Kernel) = {TRUE}

(* C25: context_switch(old, new) with old # new and old Running makes old *)
(* Ready and appends it once at the tail of the bucket of its effective   *)
(* priority, and makes new Running; with old = new it changes nothing.    *)
C25_ContextSwitch ==
    [][\A old_process \in Slots \cup {NULL}, new_process \in Slots \cup {NULL} :
        (/\ last'.op = "context_switch" /\ steps' = steps + 1
         /\ last'.id = <<old_process, new_process>>)
        => IF old_process = new_process
           THEN /\ processes' = processes
                /\ priority_queues' = priority_queues
                /\ priority_queue_heads' = priority_queue_heads
                /\ priority_queue_tails' = priority_queue_tails
                /\ scheduler_stats' = scheduler_stats
                /\ current_process' = current_process
           ELSE (/\ old_process # NULL /\ new_process # NULL
                 /\ processes[old_process].state = PROCESS_RUNNING)
                => LET priority ==
                         EffectivePriority(processes[old_process].priority,
                                           processes[old_process].ai_priority)
                   IN /\ processes'[old_process].state = PROCESS_READY
                      /\ priority_queue_tails'[priority]
                           = priority_queue_tails[priority] + 1
                      /\ priority_queues'[priority][priority_queue_tails[priority]]
                           = old_process
                      /\ \A other \in Buckets \ {priority} :
                            priority_queue_tails'[other] = priority_queue_tails[other]
                      /\ processes'[new_process].state = PROCESS_RUNNING]_vars

(* C28: every entry between head and tail of every bucket that refers to  *)
(* a created PCB refers to a PCB in state Ready.                           *)
C28_BucketsHoldReady ==
    \A priority \in Buckets :
        \A i \in 0..(MAX_PROCESSES - 1) :
            (priority_queue_heads[priority] <= i /\ i < priority_queue_tails[priority])
            => (priority_queues[priority][i] \in Created
                => processes[priority_queues[priority][i]].state = PROCESS_READY)

(* The calls that assign a PCB's state once, so that the states before    *)
(* and after the call are the two ends of one transition.                  *)
C29_SingleAssignments ==
    {"process_sleep", "process_wake", "process_destroy", "process_add_to_ready"}

(* C29: every change of a PCB's state made by a call that assigns the     *)
(* state once is one of New->Ready, Ready->Running, Running->Ready,       *)
(* Running->Waiting, Waiting->Ready, Ready->Terminated,                    *)
(* Running->Terminated.                                                    *)
C29_Transitions ==
    [][\A process \in Slots :
        (/\ last'.op \in C29_SingleAssignments /\ steps' = steps + 1
         /\ processes[process].pid >= 1
         /\ processes'[process].pid = processes[process].pid
         /\ processes'[process].state # processes[process].state)
        => <<processes[process].state, processes'[process].state>> \in
             {<<PROCESS_NEW, PROCESS_READY>>,
              <<PROCESS_READY, PROCESS_RUNNING>>,
              <<PROCESS_RUNNING, PROCESS_READY>>,
              <<PROCESS_RUNNING, PROCESS_WAITING>>,
              <<PROCESS_WAITING, PROCESS_READY>>,
              <<PROCESS_READY, PROCESS_TERMINATED>>,
              <<PROCESS_RUNNING, PROCESS_TERMINATED>>}]_vars

(* The calls through which the scheduler leaves the current process.       *)
C30_SwitchingCalls == {"scheduler_run", "scheduler_yield", "scheduler_sleep"}

(* C30: when a tick, a yield or a sleep of the current process switches    *)
(* away from the Running PCB and it stays Ready or Waiting, the registers  *)
(* live before                                                             *)
(* the call are that PCB's and are saved into its own context; and the     *)
(* saved context of a PCB never holds the registers of another PCB.        *)
C30_ContextSaved ==
    [][/\ \A old_process \in Slots :
            (/\ last'.op \in C30_SwitchingCalls /\ steps' = steps + 1
             /\ current_process = old_process
             /\ current_process' # old_process
             /\ processes[old_process].pid >= 1
             /\ processes[old_process].state = PROCESS_RUNNING
             /\ processes'[old_process].state \in {PROCESS_READY, PROCESS_WAITING})
            => /\ registers.owner = old_process
               /\ processes'[old_process].context = registers
       /\ \A process \in Slots :
            (/\ processes'[process].pid >= 1
             /\ processes'[process].state # PROCESS_TERMINATED)
            => processes'[process].context.owner = process]_vars

C31_SwitchingCalls ==
    {"scheduler_run", "scheduler_yield", "scheduler_sleep",
     "scheduler_add_process", "scheduler_wake"}

(* C31: no call makes total switches, boosted-task switches or idle ticks *)
(* smaller; a call that moves the current process through context_switch  *)
(* to another PCB or to none has counted one switch, and has counted a boosted-task switch      *)
(* exactly when the incoming PCB carries the flag; boosted-task switches   *)
(* never exceed total switches.                                            *)
C31_SwitchCounters ==
    [][/\ scheduler_stats'.total_switches >= scheduler_stats.total_switches
       /\ scheduler_stats'.ai_task_switches >= scheduler_stats.ai_task_switches
       /\ scheduler_stats'.idle_time >= scheduler_stats.idle_time
       /\ scheduler_stats'.ai_task_switches <= scheduler_stats'.total_switches
       /\ (/\ last'.op \in C31_SwitchingCalls /\ steps' = steps + 1
           /\ current_process' # current_process
           /\ ~IsWild(current_process')
           /\ ~fault')
          => /\ scheduler_stats'.total_switches = scheduler_stats.total_switches + 1
             /\ scheduler_stats'.ai_task_switches
                  = scheduler_stats.ai_task_switches
                    + (IF current_process' # NULL
                          /\ processes'[current_process'].ai_priority
                       THEN 1 ELSE 0)]_vars

(* A tick has switched to a PCB that carries the flag, and both counters   *)
(* have counted it.                                                        *)
C31_Witness ==
    /\ last.op = "scheduler_run"
    /\ current_process \in Created
    /\ processes[current_process].ai_priority
    /\ scheduler_stats.total_switches = 1
    /\ scheduler_stats.ai_task_switches = 1

(* C32: a tick that leaves a PCB of the table Running as current process  *)
(* adds one to the elapsed quantum (counted from zero when the tick        *)
(* rescheduled) and leaves the idle counter; a tick that leaves no current *)
(* process adds one to the idle counter and leaves the elapsed quantum;    *)
(* and the elapsed quantum of a Running current PCB never exceeds its      *)
(* budget.                                                                 *)
C32_TickAccounting ==
    [][/\ (/\ last'.op = "scheduler_run" /\ steps' = steps + 1
           /\ ~IsWild(current_process') /\ ~fault')
          => IF current_process' # NULL
                /\ processes'[current_process'].state = PROCESS_RUNNING
             THEN /\ scheduler_stats'.idle_time = scheduler_stats.idle_time
                  /\ scheduler_stats'.current_quantum
                       \in {scheduler_stats.current_quantum + 1, 1}
             ELSE /\ scheduler_stats'.idle_time = scheduler_stats.idle_time + 1
                  /\ scheduler_stats'.current_quantum = scheduler_stats.current_quantum
       /\ (/\ current_process' \in Slots
           /\ processes'[current_process'].pid >= 1
           /\ processes'[current_process'].state = PROCESS_RUNNING)
          => scheduler_stats'.current_quantum <= processes'[current_process'].quantum]_vars

(* The PCB the first tick made Running has held the core for its whole     *)
(* budget, and the tick after that has restarted the count.                *)
C32_Witness ==
    /\ last.op = "scheduler_run"
    /\ scheduler_tick_count = DEFAULT_QUANTUM + 1
    /\ steps = scheduler_tick_count
    /\ current_process \in Created
    /\ processes[current_process].state = PROCESS_RUNNING
    /\ scheduler_stats.current_quantum = 1

(* A block of bsize bytes holds size rounded up to a multiple of 8.        *)
C33_Holds(bsize, size) ==
    /\ UGe(bsize, size)
    /\ UGe(bsize - size, (8 - (size % 8)) % 8)

(* C33: a successful allocate(size) uses a block of minimum size among the *)
(* free blocks that hold size rounded up to a multiple of 8, and allocate  *)
(* of a non-zero size fails exactly when there is no such block.           *)
C33_BestFit ==
    [][(last'.op = "kmalloc" /\ steps' = steps + 1 /\ last'.id # 0)
       => LET size == last'.id
              fits == {a \in Blocks(heap, KERNEL_HEAP_START) :
                          ~heap[a].used /\ C33_Holds(heap[a].size, size)}
          IN IF fits = {} THEN last'.ret = NULL
             ELSE /\ last'.ret # NULL
                  /\ (last'.ret - BLOCK_HEADER) \in fits
                  /\ \A a \in fits :
                        UGe(heap[a].size, heap[last'.ret - BLOCK_HEADER].size)]_vars

(* C34: no two adjacent blocks of the heap list are both free, and the     *)
(* number of blocks is at most twice the number of live allocations plus   *)
(* one.                                                                    *)
C34_NoAdjacentFree ==
    LET list == Blocks(heap, KERNEL_HEAP_START)
    IN /\ \A a \in list :
            (~heap[a].used /\ heap[a].next # NULL) => heap[heap[a].next].used
       /\ Cardinality(list) <= 2 * Cardinality(pointers.live) + 1

(* The blocks from current on lie one behind the other from address at to  *)
(* the end of the arena, each pointing back to the block before it.        *)
RECURSIVE C35_Tiles(_, _, _, _)
C35_Tiles(h, current, before, at) ==
    IF current = NULL THEN at = KERNEL_HEAP_START + KERNEL_HEAP_SIZE
    ELSE /\ current = at
         /\ h[current].prev = before
         /\ C35_Tiles(h, h[current].next, current,
                      current + BLOCK_HEADER + h[current].size)

(* C35: the block list tiles the heap arena exactly: header and payload    *)
(* ranges are adjacent from the first block to the end of the arena, and   *)
(* prev and next links are mutually consistent.                            *)
C35_ListTilesArena ==
    C35_Tiles(heap, KERNEL_HEAP_START, NULL, KERNEL_HEAP_START)

(* The payload sizes of the blocks of S, added up. *)
RECURSIVE C37_PayloadSum(_, _)
C37_PayloadSum(h, S) ==
    IF S = {} THEN 0
    ELSE LET a == CHOOSE x \in S : TRUE
         IN h[a].size + C37_PayloadSum(h, S \ {a})

(* C37: the used statistic equals the sum of the payload sizes of the      *)
(* blocks marked used, and never wraps below zero.                         *)
C37_UsedIsUsedPayload ==
    LET used == {a \in Blocks(heap, KERNEL_HEAP_START) : heap[a].used}
    IN /\ memory_get_stats(Kernel).used = C37_PayloadSum(heap, used)
       /\ ~ULt(SIZE_MAX - KERNEL_HEAP_SIZE, memory_get_stats(Kernel).used)

(* The iterations the sweep of process_check_wakeups makes from index i    *)
(* on, after n; counting stops once n has passed limit.                    *)
RECURSIVE C36_SweepSteps(_, _, _, _)
C36_SweepSteps(k, i, n, limit) ==
    IF i = k.waiting_queue_tail \/ n > limit THEN n
    ELSE
      LET process == k.waiting_queue[i]
          k1 == IF process # NULL /\ ULe(k.processes[process].wake_time, k.uptime)
                THEN process_wake(k, k.processes[process].pid)
                ELSE k
      IN C36_SweepSteps(k1, Wrap(i + 1), n + 1, limit)

(* The iterations a loop for (i = head; i != tail; i = (i + 1) % MAX_PROCESSES) *)
(* makes, after n; counting stops once n has passed limit.                 *)
RECURSIVE C36_RingSteps(_, _, _, _)
C36_RingSteps(i, tail, n, limit) ==
    IF i = tail \/ n > limit THEN n
    ELSE C36_RingSteps(Wrap(i + 1), tail, n + 1, limit)

(* C36: every loop of the core operations ends within a number of          *)
(* iterations bounded by the table size: the sweep of check_wakeups, the   *)
(* search and shift loops over the ready, wait and priority queues, and    *)
(* the scan of the block list in allocate.                                 *)
C36_LoopsEnd ==
    /\ C36_SweepSteps(Kernel, waiting_queue_head, 0, MAX_PROCESSES * MAX_PROCESSES)
          <= MAX_PROCESSES * MAX_PROCESSES
    /\ C36_RingSteps(ready_queue_head, ready_queue_tail, 0, MAX_PROCESSES)
          <= MAX_PROCESSES
    /\ C36_RingSteps(waiting_queue_head, waiting_queue_tail, 0, MAX_PROCESSES)
          <= MAX_PROCESSES
    /\ \A priority \in DOMAIN priority_queue_tails :
          priority_queue_tails[priority] - priority_queue_heads[priority]
             <= MAX_PROCESSES
    /\ ScanEnds(heap, KERNEL_HEAP_START, {})

(* C38: scheduler_get_next_process returns the PCB the selection would     *)
(* choose and leaves every bucket, head and tail index, PCB state and the  *)
(* current process unchanged.                                              *)
C38_GetNextOnlyLooks ==
    [][(last'.op = "scheduler_get_next_process" /\ steps' = steps + 1)
       => /\ last'.ret = select_next_process(Kernel).ret
          /\ priority_queues' = priority_queues
          /\ priority_queue_heads' = priority_queue_heads
          /\ priority_queue_tails' = priority_queue_tails
          /\ processes' = processes
          /\ current_process' = current_process]_vars

(* C39: when a tick returns with a PCB of the table Running as the current *)
(* process, no bucket strictly above its effective priority is non-empty.  *)
C39_RunningIsHighest ==
    [][(/\ last'.op = "scheduler_run" /\ steps' = steps + 1 /\ ~fault'
        /\ current_process' \in Slots
        /\ processes'[current_process'].state = PROCESS_RUNNING)
       => \A priority \in MIN_PRIORITY..MAX_PRIORITY :
             priority > EffectivePriority(processes'[current_process'].priority,
                                          processes'[current_process'].ai_priority)
             => priority_queue_heads'[priority] = priority_queue_tails'[priority]]_vars

(* C40: a call of stop() always returns: the worker observes running ==    *)
(* false, leaves its loop and is joined.                                   *)
C40_StopReturns ==
    (engine.stop # "idle") ~> (engine.stop = "returned")

====
